---- MODULE Spec2Model ----
(***************************************************************************)
(* State-machine model of the WebSocket test servers of the repository:   *)
(*   - the metrics broadcast server  (system_monitor/server.js)            *)
(*   - the two echo servers          (unnamed/part_000, unnamed/part_001)  *)
(* Every handler of the event loop is one atomic action: Node runs a       *)
(* handler to completion before it dispatches the next event.              *)
(***************************************************************************)
EXTENDS Integers, Sequences, FiniteSets, TLC

(***************************************************************************)
(* Bounds of the model.                                                    *)
(***************************************************************************)
\* Number of steps (events) explored in one behaviour.
MaxSteps == 5

(***************************************************************************)
(* JSON texts, as sequences of lexical tokens.  Two texts are the same     *)
(* text iff their token sequences are equal: white space, the spelling of  *)
(* a number (42 / 42.0), the spelling of every character of a string       *)
(* (A / \u0041) and repeated keys are all kept in the text.           *)
(***************************************************************************)
\* The printable ASCII characters, U+0020 to U+007E, in code order (the grave
\* accent, which a TLA+ string cannot hold, by its name).
Ascii ==
    <<" ", "!", "\"", "#", "$", "%", "&", "'", "(", ")", "*", "+", ",", "-",
      ".", "/", "0", "1", "2", "3", "4", "5", "6", "7", "8", "9", ":", ";",
      "<", "=", ">", "?", "@", "A", "B", "C", "D", "E", "F", "G", "H", "I",
      "J", "K", "L", "M", "N", "O", "P", "Q", "R", "S", "T", "U", "V", "W",
      "X", "Y", "Z", "[", "\\", "]", "^", "_", "U+0060", "a", "b", "c", "d", "e",
      "f", "g", "h", "i", "j", "k", "l", "m", "n", "o", "p", "q", "r", "s",
      "t", "u", "v", "w", "x", "y", "z", "{", "|", "}", "~">>

\* The UTF-16 code unit of a printable ASCII character.
Code(c) == 31 + (CHOOSE i \in 1..Len(Ascii) : Ascii[i] = c)

\* One character as it is spelled between the quotes of a string:
\*   Raw(u)       the character with code unit u, written as it is
\*   Esc(c)       a backslash and the character c:  \n  \/  \"  \x
\*   EscU(h)      \u and the (four) characters h:   \u0041
Spelled(e, u, h) == [e |-> e, u |-> u, h |-> h]
Raw(u)  == Spelled("raw", u, <<>>)
Esc(c)  == Spelled("\\", 0, <<c>>)
EscU(h) == Spelled("\\u", 0, h)

\* The characters cs (printable ASCII), each written as it is.
Plain(cs) == [i \in 1..Len(cs) |-> Raw(Code(cs[i]))]

Tok(k, n, s) == [k |-> k, n |-> n, s |-> s]
WS      == Tok("ws", 0, <<>>)        \* a run of white space
LB      == Tok("{", 0, <<>>)
RB      == Tok("}", 0, <<>>)
LK      == Tok("[", 0, <<>>)
RK      == Tok("]", 0, <<>>)
Colon   == Tok(":", 0, <<>>)
Comma   == Tok(",", 0, <<>>)
NullTok == Tok("null", 0, <<>>)
NumTok(n)     == Tok("num", n, <<>>)    \* the integer n written plainly: 42
NumDot0Tok(n) == Tok("num.0", n, <<>>)  \* the same number written 42.0
StrTok(s)     == Tok("str", 0, s)       \* a double-quoted string, s its spelled characters
WordTok(s)    == Tok("word", 0, s)      \* bare characters that are no JSON token

(***************************************************************************)
(* JSON values (what JSON.parse returns).  A string is its sequence of     *)
(* UTF-16 code units.  An object keeps its members in the order in which   *)
(* JavaScript enumerates own properties: array-index keys in ascending     *)
(* numeric order, then the other keys in insertion order.  An array value  *)
(* is the array of the elements m inside n one-element arrays: [[[1,2]]]   *)
(* is n = 2, m = <<1, 2>>, and in an array value of one element that       *)
(* element is never an array.  Nesting thousands of levels deep, which     *)
(* JSON.parse accepts, is then a value of small depth.                     *)
(***************************************************************************)
Val(t, n, s, m) == [t |-> t, n |-> n, s |-> s, m |-> m]
NumVal(n)  == Val("number", n, <<>>, <<>>)
StrVal(s)  == Val("string", 0, s, <<>>)
NullVal    == Val("null", 0, <<>>, <<>>)
ObjVal(m)  == Val("object", 0, <<>>, m)    \* m: sequence of <<key, value>>
\* The value v inside c more one-element arrays.
Wrap(v, c) ==
    IF c = 0 THEN v
    ELSE IF v.t = "array" THEN [v EXCEPT !.n = @ + c]
    ELSE Val("array", c - 1, <<>>, <<v>>)
\* The array of the values m.
ArrVal(m)  == IF Len(m) = 1 THEN Wrap(m[1], 1) ELSE Val("array", 0, <<>>, m)
EmptyObject == ObjVal(<<>>)

\* The digits 0-9a-f; JSON.stringify writes \u escapes with these.
HexLower == <<"0", "1", "2", "3", "4", "5", "6", "7", "8", "9",
              "a", "b", "c", "d", "e", "f">>
HexUpper == <<"A", "B", "C", "D", "E", "F">>

\* Value of a hexadecimal digit, -1 for any other character.
HexVal(d) ==
    IF \E i \in 1..16 : HexLower[i] = d
    THEN (CHOOSE i \in 1..16 : HexLower[i] = d) - 1
    ELSE IF \E i \in 1..6 : HexUpper[i] = d
    THEN (CHOOSE i \in 1..6 : HexUpper[i] = d) + 9
    ELSE -1

\* The code unit a spelled character stands for, -1 if JSON.parse rejects it:
\* an unescaped quote (34), backslash (92) or control character, a backslash
\* before a character other than " \ / b f n r t u, or \u without four hex
\* digits.
Decoded(x) ==
    CASE x.e = "raw" ->
             IF x.u >= 32 /\ x.u # 34 /\ x.u # 92 THEN x.u ELSE -1
      [] x.e = "\\" ->
             LET c == x.h[1] IN
             CASE c = "\"" -> 34
               [] c = "\\" -> 92
               [] c = "/"  -> 47
               [] c = "b"  -> 8
               [] c = "f"  -> 12
               [] c = "n"  -> 10
               [] c = "r"  -> 13
               [] c = "t"  -> 9
               [] OTHER    -> -1
      [] x.e = "\\u" ->
             IF Len(x.h) = 4 /\ \A i \in 1..4 : HexVal(x.h[i]) >= 0
             THEN 4096 * HexVal(x.h[1]) + 256 * HexVal(x.h[2])
                  + 16 * HexVal(x.h[3]) + HexVal(x.h[4])
             ELSE -1

\* The string a string token denotes: ok is FALSE where JSON.parse throws.
DecodeString(s) ==
    LET d == [i \in 1..Len(s) |-> Decoded(s[i])]
    IN  [ok |-> \A i \in 1..Len(s) : d[i] >= 0, s |-> d]

IsHighSurrogate(u) == u >= 55296 /\ u <= 56319
IsLowSurrogate(u)  == u >= 56320 /\ u <= 57343

\* \uXXXX as JSON.stringify writes it.
EscUOf(u) ==
    EscU(<<HexLower[(u \div 4096) + 1], HexLower[((u \div 256) % 16) + 1],
           HexLower[((u \div 16) % 16) + 1], HexLower[(u % 16) + 1]>>)

\* QuoteJSONString: the spelling JSON.stringify gives the string s: quote,
\* backslash and control characters escaped, a surrogate that is not half of
\* a pair escaped, every other character as it is.
Quoted(s) ==
    [i \in 1..Len(s) |->
        LET u == s[i] IN
        IF u >= 32 /\ u # 34 /\ u # 92 /\ u < 55296 THEN Raw(u)
        ELSE CASE u = 34 -> Esc("\"")
               [] u = 92 -> Esc("\\")
               [] u = 8  -> Esc("b")
               [] u = 12 -> Esc("f")
               [] u = 10 -> Esc("n")
               [] u = 13 -> Esc("r")
               [] u = 9  -> Esc("t")
               [] u < 32 /\ u \notin {8, 9, 10, 12, 13} -> EscUOf(u)
               [] IsHighSurrogate(u) ->
                      IF i < Len(s) /\ IsLowSurrogate(s[i + 1]) THEN Raw(u) ELSE EscUOf(u)
               [] IsLowSurrogate(u) ->
                      IF i > 1 /\ IsHighSurrogate(s[i - 1]) THEN Raw(u) ELSE EscUOf(u)
               [] OTHER -> Raw(u)]

\* The decimal spelling of 2^32 - 2, the largest array index.
MaxArrayIndex ==
    [i \in 1..10 |-> Code(<<"4", "2", "9", "4", "9", "6", "7", "2", "9", "4">>[i])]

\* For two canonical decimal spellings: the first number is the smaller one.
DigitsLess(a, b) ==
    \/ Len(a) < Len(b)
    \/ /\ Len(a) = Len(b)
       /\ \E i \in 1..Len(a) : a[i] < b[i] /\ \A j \in 1..(i - 1) : a[j] = b[j]

\* A property key that is an array index: the canonical decimal spelling of
\* an integer from 0 to 2^32 - 2.
IsArrayIndex(key) ==
    /\ Len(key) >= 1
    /\ \A i \in 1..Len(key) : key[i] >= 48 /\ key[i] <= 57     \* "0" to "9"
    /\ (Len(key) > 1 => key[1] # 48)
    /\ ~DigitsLess(MaxArrayIndex, key)

\* TRUE iff a member with key k1 is enumerated before one with key k2 that
\* was inserted earlier.
GoesBefore(k1, k2) ==
    /\ IsArrayIndex(k1)
    /\ IsArrayIndex(k2) => DigitsLess(k1, k2)

\* obj[key] = val on a JavaScript object: an existing key keeps its place and
\* takes the new value; a new array-index key goes among the array-index
\* keys, in numeric order; any other new key is appended.
SetMember(m, key, val) ==
    IF \E i \in 1..Len(m) : m[i][1] = key
    THEN [i \in 1..Len(m) |-> IF m[i][1] = key THEN <<key, val>> ELSE m[i]]
    ELSE LET before == {i \in 1..Len(m) : ~GoesBefore(key, m[i][1])}
             p      == Cardinality(before)
         IN  SubSeq(m, 1, p) \o <<<<key, val>>>> \o SubSeq(m, p + 1, Len(m))

\* Result of a parsing step: ok, the value, the index of the next token.
PFail == [ok |-> FALSE, v |-> NullVal, i |-> 0]
POk(v, i) == [ok |-> TRUE, v |-> v, i |-> i]

RECURSIVE SkipWs(_, _)
SkipWs(toks, i) ==
    IF i <= Len(toks) /\ toks[i] = WS THEN SkipWs(toks, i + 1) ELSE i

\* The k tokens from index i on are all the token t.
AllAre(toks, i, k, t) ==
    \/ k = 0
    \/ /\ toks[i] = t
       /\ SubSeq(toks, i, i + k - 2) = SubSeq(toks, i + 1, i + k - 1)

\* The number of tokens t in a row from index i on, which is at least lo and
\* less than hi: found by halving.
RECURSIVE RunBetween(_, _, _, _, _)
RunBetween(toks, i, t, lo, hi) ==
    IF hi <= lo + 1 THEN lo
    ELSE LET mid == (lo + hi) \div 2 IN
         IF AllAre(toks, i + lo, mid - lo, t)
         THEN RunBetween(toks, i, t, mid, hi)
         ELSE RunBetween(toks, i, t, lo, mid)

\* The number of tokens t in a row from index i on.
Run(toks, i, t) == RunBetween(toks, i, t, 0, Len(toks) - i + 2)

RECURSIVE ParseValue(_, _)
RECURSIVE ParseMembers(_, _, _)
RECURSIVE ParseElements(_, _, _)
RECURSIVE ParseEnclosing(_, _, _, _)

\* members of an object, the opening brace already read; acc: members so far
ParseMembers(toks, i0, acc) ==
    LET i == SkipWs(toks, i0) IN
    IF i > Len(toks) \/ toks[i].k # "str" THEN PFail
    ELSE LET key == DecodeString(toks[i].s)
             j == SkipWs(toks, i + 1)
         IN
         IF ~key.ok \/ j > Len(toks) \/ toks[j] # Colon THEN PFail
         ELSE LET r == ParseValue(toks, j + 1) IN
              IF ~r.ok THEN PFail
              ELSE LET acc2 == SetMember(acc, key.s, r.v)
                       e == SkipWs(toks, r.i)
                   IN  IF e > Len(toks) THEN PFail
                       ELSE IF toks[e] = Comma THEN ParseMembers(toks, e + 1, acc2)
                       ELSE IF toks[e] = RB THEN POk(ObjVal(acc2), e + 1)
                       ELSE PFail

\* elements of an array, the opening bracket already read
ParseElements(toks, i0, acc) ==
    LET r == ParseValue(toks, i0) IN
    IF ~r.ok THEN PFail
    ELSE LET acc2 == Append(acc, r.v)
             e == SkipWs(toks, r.i)
         IN  IF e > Len(toks) THEN PFail
             ELSE IF toks[e] = Comma THEN ParseElements(toks, e + 1, acc2)
             ELSE IF toks[e] = RK THEN POk(ArrVal(acc2), e + 1)
             ELSE PFail

\* q arrays are open whose first element is being read; v is the first
\* element of the innermost of them and e the index of the token after v.
\* Closing brackets in a row close as many of them at once.
ParseEnclosing(toks, e0, q, v) ==
    IF q = 0 THEN POk(v, e0)
    ELSE LET run == Run(toks, e0, RK)
             c == IF run < q THEN run ELSE q
         IN
         IF c > 0 THEN ParseEnclosing(toks, e0 + c, q - c, Wrap(v, c))
         ELSE LET e == SkipWs(toks, e0) IN
              IF e > Len(toks) THEN PFail
              ELSE IF toks[e] = RK THEN ParseEnclosing(toks, e + 1, q - 1, ArrVal(<<v>>))
              ELSE IF toks[e] = Comma
                   THEN LET r == ParseElements(toks, e + 1, <<v>>) IN
                        IF r.ok THEN ParseEnclosing(toks, r.i, q - 1, r.v) ELSE PFail
              ELSE PFail

ParseValue(toks, i0) ==
    LET i == SkipWs(toks, i0) IN
    IF i > Len(toks) THEN PFail
    ELSE LET t == toks[i] IN
         CASE t.k = "num"   -> POk(NumVal(t.n), i + 1)
           [] t.k = "num.0" -> POk(NumVal(t.n), i + 1)
           [] t.k = "str"   -> LET d == DecodeString(t.s) IN
                               IF d.ok THEN POk(StrVal(d.s), i + 1) ELSE PFail
           [] t.k = "null"  -> POk(NullVal, i + 1)
           [] t.k = "{"     -> LET j == SkipWs(toks, i + 1) IN
                               IF j <= Len(toks) /\ toks[j] = RB
                               THEN POk(EmptyObject, j + 1)
                               ELSE ParseMembers(toks, i + 1, <<>>)
           [] t.k = "["     -> LET k == Run(toks, i, LK)
                                   j == SkipWs(toks, i + k)
                                   r == IF j <= Len(toks) /\ toks[j] = RK
                                        THEN POk(ArrVal(<<>>), j + 1)
                                        ELSE ParseElements(toks, i + k, <<>>)
                               IN  IF r.ok THEN ParseEnclosing(toks, r.i, k - 1, r.v)
                                   ELSE PFail
           [] OTHER         -> PFail

\* JSON.parse(text): one value, then nothing but white space; otherwise it
\* throws a SyntaxError (ok = FALSE).
JSONparse(text) ==
    LET r == ParseValue(text, 1) IN
    IF r.ok /\ SkipWs(text, r.i) > Len(text) THEN r ELSE PFail

\* JSON.stringify serialises a nested value by recursion on the runtime's
\* stack and throws a RangeError when the stack runs out.  How deep it gets
\* depends on the stack left at the call: values nested NestingServed levels
\* deep were serialised, values nested NestingRefused levels deep were not.
NestingServed == 2000
NestingRefused == 4500

\* The nesting levels the stack may have room for when JSON.stringify is
\* called: a handler that calls it takes either.
StackRooms == {NestingServed, NestingRefused - 1}

\* Result of serialising: ok and the text, or ok = FALSE where a RangeError
\* is thrown.
SFail == [ok |-> FALSE, text |-> <<>>]
SOk(text) == [ok |-> TRUE, text |-> text]

\* The token t, n times.
Rep(t, n) == SubSeq([i \in 1..n |-> t], 1, n)

RECURSIVE JSONstringify(_, _)
RECURSIVE StringifyMembers(_, _, _)
RECURSIVE StringifyElements(_, _, _)

\* The members of an object from member i on; room: the nesting levels the
\* stack still has room for.
StringifyMembers(m, i, room) ==
    IF i > Len(m) THEN SOk(<<>>)
    ELSE LET val == JSONstringify(m[i][2], room) IN
         IF ~val.ok THEN SFail
         ELSE LET rest == StringifyMembers(m, i + 1, room) IN
              IF ~rest.ok THEN SFail
              ELSE SOk((IF i > 1 THEN <<Comma>> ELSE <<>>)
                       \o <<StrTok(Quoted(m[i][1])), Colon>> \o val.text
                       \o rest.text)

\* The elements of an array from element i on.
StringifyElements(m, i, room) ==
    IF i > Len(m) THEN SOk(<<>>)
    ELSE LET val == JSONstringify(m[i], room) IN
         IF ~val.ok THEN SFail
         ELSE LET rest == StringifyElements(m, i + 1, room) IN
              IF ~rest.ok THEN SFail
              ELSE SOk((IF i > 1 THEN <<Comma>> ELSE <<>>) \o val.text \o rest.text)

\* JSON.stringify(value) with room for `room` nesting levels: the compact
\* text, no white space, numbers in their shortest spelling, strings in the
\* spelling of Quoted; a RangeError when the value is nested deeper than that.
JSONstringify(v, room) ==
    CASE v.t = "number" -> SOk(<<NumTok(v.n)>>)
      [] v.t = "string" -> SOk(<<StrTok(Quoted(v.s))>>)
      [] v.t = "null"   -> SOk(<<NullTok>>)
      [] v.t = "object" ->
            IF room < 1 THEN SFail
            ELSE LET ms == StringifyMembers(v.m, 1, room - 1) IN
                 IF ms.ok THEN SOk(<<LB>> \o ms.text \o <<RB>>) ELSE SFail
      [] v.t = "array"  ->
            IF room < v.n + 1 THEN SFail
            ELSE LET es == StringifyElements(v.m, 1, room - v.n - 1) IN
                 IF es.ok
                 THEN SOk(Rep(LK, v.n + 1) \o es.text \o Rep(RK, v.n + 1))
                 ELSE SFail

(***************************************************************************)
(* Payload texts a client may send.                                        *)
(***************************************************************************)
TxtCpu42       == <<LB, StrTok(Plain(<<"c", "p", "u">>)), Colon, NumTok(42), RB>>
TxtCpu42Spaced == <<LB, WS, StrTok(Plain(<<"c", "p", "u">>)), Colon, WS,
                    NumTok(42), WS, RB>>
TxtMemTwice    == <<LB, StrTok(Plain(<<"m", "e", "m">>)), Colon, NumDot0Tok(1), Comma,
                    StrTok(Plain(<<"m", "e", "m">>)), Colon,
                    LK, NumTok(7), Comma, NullTok, RK, RB>>
TxtHelloQuoted == <<StrTok(Plain(<<"h", "e", "l", "l", "o">>))>>
TxtHelloBare   == <<WordTok(Plain(<<"h", "e", "l", "l", "o">>))>>
TxtTruncated   == <<LB, StrTok(Plain(<<"c", "p", "u">>)), Colon>>
\* {"b":"\u0041\/","1":2}
TxtEscapedIndexed ==
    <<LB, StrTok(Plain(<<"b">>)), Colon,
      StrTok(<<EscU(<<"0", "0", "4", "1">>), Esc("/")>>), Comma,
      StrTok(Plain(<<"1">>)), Colon, NumTok(2), RB>>

\* [[[...[]...]]]: NestingRefused arrays, one inside the other
TxtDeepArray == Rep(LK, NestingRefused) \o Rep(RK, NestingRefused)

Payloads == {TxtCpu42, TxtCpu42Spaced, TxtMemTwice, TxtHelloQuoted,
             TxtHelloBare, TxtTruncated, TxtEscapedIndexed, TxtDeepArray}


(***************************************************************************)
(* The client sketches: remote_connection_internet.ino and                 *)
(* ws_connection_client.ino.  The sketch is the device process; the WiFi   *)
(* link, the access point, the server and the passing of time are its      *)
(* environment.  Blocking wait loops  while (WiFi.status() != WL_CONNECTED) *)
(* delay(d);  are left when the status is WL_CONNECTED.                    *)
(***************************************************************************)
\* Time is observed in ticks of TickMs milliseconds; the model follows the
\* time since the last heartbeat for at most MaxElapsed ticks.
TickMs == 2500
MaxElapsed == 3

\* if (millis() - lastTime > 5000)
HeartbeatMs == 5000

VARIABLES
    sketch,     \* which of the two sketches runs on the device
    pc,         \* where the sketch is
    wifi,       \* "up" iff WiFi.status() == WL_CONNECTED
    ap,         \* "on" iff the access point can be joined
    trying,     \* the station is trying to join (after WiFi.begin)
    autoRe,     \* whether the WiFi library rejoins by itself after a loss
    sock,       \* state of the WebSocketsClient connection
    attempt,    \* the last webSocket.loop() tried to connect to the server
    sinceLast,  \* millis() - lastTime (static uint32_t lastTime), in ticks
    tx          \* the last text the sketch sent with sendTXT, and whether the
                \* socket was connected then

clientVars == <<sketch, pc, wifi, ap, trying, autoRe, sock, attempt,
                sinceLast, tx>>

InitClientIdle ==
    /\ sketch = "none"
    /\ pc = "off"
    /\ wifi = "down"
    /\ ap = "off"
    /\ trying = FALSE
    /\ autoRe = FALSE
    /\ sock = "disconnected"
    /\ attempt = FALSE
    /\ sinceLast = 0
    /\ tx = <<"none", FALSE>>

\* millis() - lastTime, in milliseconds.  The uint32_t difference is the time
\* passed since lastTime was set, as long as that is less than 2^32 ms.
ElapsedMs == sinceLast * TickMs

\* setup(): WiFi.begin(ssid, password) has been called; the wait loop ends
\* when the link is up, then webSocket.begin(host, port, "/") and onEvent.
SetupDone ==
    /\ pc = "setup_wifi"
    /\ wifi = "up"
    /\ pc' = "loop_top"
    /\ UNCHANGED <<sketch, wifi, ap, trying, autoRe, sock, attempt, sinceLast, tx>>

\* remote_connection_internet.ino: loop() starts with ensureWiFi(): a lost
\* link is rejoined with WiFi.begin and waited for.
\* ws_connection_client.ino: loop() starts with webSocket.loop().
LoopTop ==
    /\ pc = "loop_top"
    /\ IF sketch = "remote_connection_internet" /\ wifi # "up"
       THEN /\ trying' = TRUE
            /\ pc' = "ensure_wait"
       ELSE /\ trying' = trying
            /\ pc' = "ws_loop"
    /\ UNCHANGED <<sketch, wifi, ap, autoRe, sock, attempt, sinceLast, tx>>

\* ensureWiFi(): the wait loop ends when the link is up.
EnsureWiFiDone ==
    /\ pc = "ensure_wait"
    /\ wifi = "up"
    /\ pc' = "ws_loop"
    /\ UNCHANGED <<sketch, wifi, ap, trying, autoRe, sock, attempt, sinceLast, tx>>

\* webSocket.loop(): a connected client whose link is gone is disconnected; a
\* disconnected client tries to connect to the address given to begin(); when
\* that succeeds webSocketEvent(WStype_CONNECTED) sends the hello text.
WebSocketLoop ==
    /\ pc = "ws_loop"
    /\ pc' = "heartbeat"
    /\ IF sock = "connected"
       THEN /\ sock' = IF wifi = "up" THEN "connected" ELSE "disconnected"
            /\ attempt' = FALSE
            /\ tx' = tx
       ELSE /\ attempt' = TRUE
            /\ \E reached \in BOOLEAN :
                  /\ reached => wifi = "up"
                  /\ sock' = IF reached THEN "connected" ELSE "disconnected"
                  /\ tx' = IF reached THEN <<"Hello from ESP32!", TRUE>> ELSE tx
    /\ UNCHANGED <<sketch, wifi, ap, trying, autoRe, sinceLast>>

\* if (millis() - lastTime > 5000) { lastTime = millis(); sendTXT("Ping...") }
Heartbeat ==
    /\ pc = "heartbeat"
    /\ pc' = "loop_top"
    /\ IF ElapsedMs > HeartbeatMs
       THEN /\ sinceLast' = 0
            /\ tx' = <<"Ping from ESP32", sock = "connected">>
       ELSE /\ sinceLast' = sinceLast
            /\ tx' = tx
    /\ UNCHANGED <<sketch, wifi, ap, trying, autoRe, sock, attempt>>

DeviceStep == SetupDone \/ LoopTop \/ EnsureWiFiDone \/ WebSocketLoop \/ Heartbeat

\* Time passes: millis() grows by TickMs.
Tick ==
    /\ sketch # "none"
    /\ sinceLast < MaxElapsed
    /\ sinceLast' = sinceLast + 1
    /\ UNCHANGED <<sketch, pc, wifi, ap, trying, autoRe, sock, attempt, tx>>

\* The station joins the access point.
Join ==
    /\ wifi = "down"
    /\ ap = "on"
    /\ trying
    /\ wifi' = "up"
    /\ UNCHANGED <<sketch, pc, ap, trying, autoRe, sock, attempt, sinceLast, tx>>

\* The WiFi link is lost; the library keeps trying to rejoin only if it is
\* set to.
WifiLost ==
    /\ wifi = "up"
    /\ wifi' = "down"
    /\ trying' = autoRe
    /\ UNCHANGED <<sketch, pc, ap, autoRe, sock, attempt, sinceLast, tx>>

\* The access point goes away or comes back.
ApChange ==
    /\ sketch # "none"
    /\ IF ap = "on"
       THEN ap' = "off" /\ wifi' = "down" /\ trying' = (IF wifi = "up" THEN autoRe ELSE trying)
       ELSE ap' = "on" /\ wifi' = wifi /\ trying' = trying
    /\ UNCHANGED <<sketch, pc, autoRe, sock, attempt, sinceLast, tx>>

\* The server or the network drops the socket.
SocketDrop ==
    /\ sock = "connected"
    /\ sock' = "disconnected"
    /\ attempt' = FALSE
    /\ UNCHANGED <<sketch, pc, wifi, ap, trying, autoRe, sinceLast, tx>>

(***************************************************************************)
(* The metrics broadcast server: system_monitor/server.js                  *)
(***************************************************************************)
\* Connections the server can accept: connection k is the k-th one accepted.
MaxConns == 3
Conns == 1..MaxConns

NoText == <<Tok("none", 0, <<>>)>>     \* "no text" (nothing received / returned yet)

VARIABLES
    readyState,     \* readyState of every connection object (ws library)
    clients,        \* the Set `clients`, in insertion order (JS Set iteration order)
    latestMetrics,  \* the variable latestMetrics: a JSON value
    sent,           \* per connection: the texts handed to its send(), in order,
                    \* each stamped with the step that sent it
    httpBody,       \* body of the last response of GET /metrics
    running,        \* FALSE once an exception has escaped a handler (process exit)
    clock,          \* number of steps taken so far
    lastEvent,      \* history: the event handled by the last step
    lastValid,      \* history: value of the last received payload that parsed
    received,       \* history: values of the received payloads that parsed, in arrival
                    \* order, each stamped with the step that handled it
    greetedAfter,   \* history: per connection, lastValid when it was accepted
    sentBad,        \* history: connections that have sent a malformed payload
    variant,        \* echo servers: which of the two files is running
    eState,         \* echo servers: state of every connection
    eSent,          \* echo servers: per connection, the texts handed to send()
    eLog,           \* echo servers, history: the <<message, reply>> pairs so far
    eRunning        \* echo servers: FALSE once an exception has ended the process

metricsVars == <<readyState, clients, latestMetrics, sent, httpBody, running,
                 lastValid, received, greetedAfter, sentBad>>
echoVars == <<variant, eState, eSent, eLog, eRunning>>
vars == <<metricsVars, echoVars, clientVars, clock, lastEvent>>

Event(type, conn, text) == [type |-> type, conn |-> conn, text |-> text]
Stamped(at, text) == [at |-> at, text |-> text]
\* A parsed payload with the step that handled it.
Arrived(at, v) == [at |-> at, v |-> v]

\* Members of a sequence, as a set.
Range(seq) == {seq[i] : i \in 1..Len(seq)}

\* Set.prototype.add: appends unless already a member.
SetAdd(set, x) == IF x \in Range(set) THEN set ELSE Append(set, x)

\* Set.prototype.delete: removes the member, keeps the order of the others.
SetDelete(set, x) == SelectSeq(set, LAMBDA y : y # x)

InitMetrics ==
    /\ readyState = [c \in Conns |-> "CONNECTING"]
    /\ clients = <<>>
    /\ latestMetrics = EmptyObject
    /\ sent = [c \in Conns |-> <<>>]
    /\ httpBody = NoText
    /\ running = TRUE
    /\ lastValid = EmptyObject
    /\ received = <<>>
    /\ greetedAfter = [c \in Conns |-> EmptyObject]
    /\ sentBad = {}

\* JSON.stringify(latestMetrics) for a newly accepted connection.
Greeting(room) == JSONstringify(latestMetrics, room)

\* JSON.stringify(metrics) for a member of the set.
BroadcastText(metrics, room) == JSONstringify(metrics, room)

\* Faulty variant of IsOpen: only CLOSED connections are skipped.
IsNotClosed(client) == readyState[client] # "CLOSED"

\* The test of the broadcast loop: client.readyState === WebSocket.OPEN
IsOpen(client) == readyState[client] = "OPEN"

\* Faulty variant of OnConnection: the connection is not added to the set.
OnConnectionNoAdd(ws) ==
    \E room \in StackRooms :
    LET text == Greeting(room) IN
    /\ clients' = clients
    /\ readyState' = [readyState EXCEPT ![ws] = "OPEN"]
    /\ IF text.ok
       THEN /\ sent' = [sent EXCEPT ![ws] = Append(@, Stamped(clock + 1, text.text))]
            /\ running' = running
       ELSE /\ sent' = sent
            /\ running' = FALSE
    /\ greetedAfter' = [greetedAfter EXCEPT ![ws] = lastValid]
    /\ UNCHANGED <<latestMetrics, httpBody, lastValid, received, sentBad>>

\* wss.on('connection'): the library has opened the socket; add it to the
\* set, send the snapshot, register the message and close handlers.  A
\* RangeError of JSON.stringify leaves the handler after the connection was
\* added: nothing catches it and the process ends.
OnConnection(ws) ==
    \E room \in StackRooms :
    LET text == Greeting(room) IN
    /\ clients' = SetAdd(clients, ws)
    /\ readyState' = [readyState EXCEPT ![ws] = "OPEN"]
    /\ IF text.ok
       THEN /\ sent' = [sent EXCEPT ![ws] = Append(@, Stamped(clock + 1, text.text))]
            /\ running' = running
       ELSE /\ sent' = sent
            /\ running' = FALSE
    /\ greetedAfter' = [greetedAfter EXCEPT ![ws] = lastValid]
    /\ UNCHANGED <<latestMetrics, httpBody, lastValid, received, sentBad>>

\* Faulty variant of ForEachSend: a text is put in front of what was sent before.
RECURSIVE ForEachSendInFront(_, _, _, _, _)
ForEachSendInFront(i, out, metrics, at, room) ==
    IF i > Len(clients) THEN out
    ELSE LET client == clients[i] IN
         IF readyState[client] = "OPEN"
         THEN LET text == BroadcastText(metrics, room) IN
              IF text.ok
              THEN ForEachSendInFront(i + 1,
                       [out EXCEPT ![client] = <<Stamped(at, text.text)>> \o @],
                       metrics, at, room)
              ELSE out
         ELSE ForEachSendInFront(i + 1, out, metrics, at, room)

\* clients.forEach(client => { if (open) client.send(JSON.stringify(metrics)) })
\* from member i on, out: the sends so far.  A RangeError of JSON.stringify
\* leaves the loop: it is caught by the catch around the whole handler body.
RECURSIVE ForEachSend(_, _, _, _, _)
ForEachSend(i, out, metrics, at, room) ==
    IF i > Len(clients) THEN out
    ELSE LET client == clients[i] IN
         IF IsOpen(client)
         THEN LET text == BroadcastText(metrics, room) IN
              IF text.ok
              THEN ForEachSend(i + 1,
                       [out EXCEPT ![client] = Append(@, Stamped(at, text.text))],
                       metrics, at, room)
              ELSE out
         ELSE ForEachSend(i + 1, out, metrics, at, room)

\* Faulty variant of OnMessage: JSON.parse outside the try block, its exception escapes.
OnMessageUncaught(ws, message) ==
    \E parsed \in {JSONparse(message)} :
    /\ IF parsed.ok
       THEN /\ latestMetrics' = parsed.v
            /\ \E room \in StackRooms :
                  sent' = ForEachSend(1, sent, parsed.v, clock + 1, room)
            /\ lastValid' = parsed.v
            /\ received' = Append(received, Arrived(clock + 1, parsed.v))
            /\ sentBad' = sentBad
            /\ running' = TRUE
       ELSE /\ latestMetrics' = latestMetrics
            /\ sent' = sent
            /\ lastValid' = lastValid
            /\ received' = received
            /\ sentBad' = sentBad \cup {ws}
            /\ running' = FALSE
    /\ UNCHANGED <<readyState, clients, httpBody, greetedAfter>>

\* ws.on('message'): try { parse; store; broadcast } catch { log }
OnMessage(ws, message) ==
    \E parsed \in {JSONparse(message)} :
    /\ IF parsed.ok
       THEN /\ latestMetrics' = parsed.v
            /\ \E room \in StackRooms :
                  sent' = ForEachSend(1, sent, parsed.v, clock + 1, room)
            /\ lastValid' = parsed.v
            /\ received' = Append(received, Arrived(clock + 1, parsed.v))
            /\ sentBad' = sentBad
       ELSE /\ latestMetrics' = latestMetrics
            /\ sent' = sent
            /\ lastValid' = lastValid
            /\ received' = received
            /\ sentBad' = sentBad \cup {ws}
    /\ UNCHANGED <<readyState, clients, httpBody, running, greetedAfter>>

\* Faulty variant of OnClose: the connection is not removed from the set.
OnCloseKeepsMember(ws) ==
    /\ clients' = clients
    /\ readyState' = [readyState EXCEPT ![ws] = "CLOSED"]
    /\ UNCHANGED <<latestMetrics, sent, httpBody, running, lastValid, received,
                   greetedAfter, sentBad>>

\* Faulty variant of OnClose: the whole set is emptied.
OnCloseClearsAll(ws) ==
    /\ clients' = <<>>
    /\ readyState' = [readyState EXCEPT ![ws] = "CLOSED"]
    /\ UNCHANGED <<latestMetrics, sent, httpBody, running, lastValid,
                   received, greetedAfter, sentBad>>

\* ws.on('close'): remove the connection from the set.
OnClose(ws) ==
    /\ clients' = SetDelete(clients, ws)
    /\ readyState' = [readyState EXCEPT ![ws] = "CLOSED"]
    /\ UNCHANGED <<latestMetrics, sent, httpBody, running, lastValid, received,
                   greetedAfter, sentBad>>

\* The body of the response to a request whose handler threw: the framework
\* catches the exception and answers 500 with an error page.
InternalServerError == <<Tok("500", 0, <<>>)>>

\* The body res.json writes for the serialising result `body`.
JsonBody(body) == IF body.ok THEN body.text ELSE InternalServerError

\* Faulty variant of OnGetMetrics: reading the snapshot also resets it.
OnGetMetricsResets ==
    /\ \E room \in StackRooms :
          httpBody' = JsonBody(JSONstringify(latestMetrics, room))
    /\ latestMetrics' = EmptyObject
    /\ UNCHANGED <<readyState, clients, sent, running, lastValid, received,
                   greetedAfter, sentBad>>

\* app.get('/metrics'): res.json(latestMetrics)
OnGetMetrics ==
    /\ \E room \in StackRooms :
          httpBody' = JsonBody(JSONstringify(latestMetrics, room))
    /\ UNCHANGED <<readyState, clients, latestMetrics, sent, running, lastValid,
                   received, greetedAfter, sentBad>>

Step(ev) ==
    /\ running
    /\ clock < MaxSteps
    /\ clock' = clock + 1
    /\ lastEvent' = ev
    /\ UNCHANGED <<echoVars, clientVars>>

\* The next connection request is accepted: the k-th accepted connection is k.
Connect ==
    \E ws \in Conns :
        /\ readyState[ws] = "CONNECTING"
        /\ \A c \in Conns : c < ws => readyState[c] # "CONNECTING"
        /\ Step(Event("connection", ws, NoText))
        /\ OnConnection(ws)

\* A text frame arrives on an open connection: once the closing handshake
\* has started the library emits no message event for the connection.
Message ==
    \E ws \in Conns, message \in Payloads :
        /\ readyState[ws] = "OPEN"
        /\ Step(Event("message", ws, message))
        /\ OnMessage(ws, message)

\* The closing handshake of a connection starts: the library sets readyState
\* to CLOSING; the close event comes later.
BeginClose ==
    \E ws \in Conns :
        /\ readyState[ws] = "OPEN"
        /\ Step(Event("closing", ws, NoText))
        /\ readyState' = [readyState EXCEPT ![ws] = "CLOSING"]
        /\ UNCHANGED <<clients, latestMetrics, sent, httpBody, running, lastValid, received, greetedAfter, sentBad>>

\* A client sends a frame the library rejects (a reserved bit set, a text that
\* is not UTF-8): the library sets readyState to CLOSING and emits 'error' on
\* the connection.  The connection handler registers 'message' and 'close'
\* listeners only, so the emit throws and the exception ends the process.
FrameError ==
    \E ws \in Conns :
        /\ readyState[ws] = "OPEN"
        /\ Step(Event("error", ws, NoText))
        /\ readyState' = [readyState EXCEPT ![ws] = "CLOSING"]
        /\ running' = FALSE
        /\ UNCHANGED <<clients, latestMetrics, sent, httpBody, lastValid, received, greetedAfter, sentBad>>

\* The library emits the close event of a connection.
Close ==
    \E ws \in Conns :
        /\ readyState[ws] \in {"OPEN", "CLOSING"}
        /\ Step(Event("close", ws, NoText))
        /\ OnClose(ws)

GetMetrics ==
    /\ Step(Event("http", 0, NoText))
    /\ OnGetMetrics

(***************************************************************************)
(* The echo servers: unnamed/part_000 and unnamed/part_001.  A text is a   *)
(* sequence of pieces; joining texts is joining the sequences.             *)
(***************************************************************************)
\* What the client sketches send (ws_connection_client.ino), and an empty text.
EchoTexts == {<<"Hello from ESP32!">>, <<"Ping from ESP32">>, <<>>}

\* ws.send('Hello from Raspberry Pi server!')
Welcome == <<"Hello from Raspberry Pi server!">>

\* part_000: the template literal `Server received: ${message}`
Reply000(message) == <<"Server received: ">> \o message

\* part_001: the single-quoted string 'Server recieved: ${message}': no
\* interpolation takes place, the characters ${message} are sent as they are.
Reply001(message) == <<"Server recieved: ", "${message}">>

Reply(message) ==
    IF variant = "part_000" THEN Reply000(message) ELSE Reply001(message)

\* Faulty variant of EchoOnConnection: the welcome text is not sent.
EchoOnConnectionNoWelcome(ws) ==
    /\ eState' = [eState EXCEPT ![ws] = "OPEN"]
    /\ UNCHANGED <<variant, eSent, eLog, eRunning>>

\* wss.on('connection'): register the handlers, send the welcome text.
EchoOnConnection(ws) ==
    /\ eState' = [eState EXCEPT ![ws] = "OPEN"]
    /\ eSent' = [eSent EXCEPT ![ws] = Append(@, Stamped(clock + 1, Welcome))]
    /\ UNCHANGED <<variant, eLog, eRunning>>

\* Faulty variant of EchoOnMessage: the reply goes to every open connection.
EchoOnMessageToAll(ws, message) ==
    /\ eSent' = [c \in Conns |->
                    IF eState[c] = "OPEN"
                    THEN Append(eSent[c], Stamped(clock + 1, Reply(message)))
                    ELSE eSent[c]]
    /\ eLog' = eLog \cup {<<message, Reply(message)>>}
    /\ UNCHANGED <<variant, eState, eRunning>>

\* ws.on('message'): reply to the sender.
EchoOnMessage(ws, message) ==
    /\ eSent' = [eSent EXCEPT ![ws] = Append(@, Stamped(clock + 1, Reply(message)))]
    /\ eLog' = eLog \cup {<<message, Reply(message)>>}
    /\ UNCHANGED <<variant, eState, eRunning>>

\* ws.on('close'): log only.
EchoOnClose(ws) ==
    /\ eState' = [eState EXCEPT ![ws] = "CLOSED"]
    /\ UNCHANGED <<variant, eSent, eLog, eRunning>>

EchoStep(ev) ==
    /\ eRunning
    /\ clock < MaxSteps
    /\ clock' = clock + 1
    /\ lastEvent' = ev
    /\ UNCHANGED <<metricsVars, clientVars>>

EchoConnect ==
    \E ws \in Conns :
        /\ eState[ws] = "CONNECTING"
        /\ \A c \in Conns : c < ws => eState[c] # "CONNECTING"
        /\ EchoStep(Event("connection", ws, NoText))
        /\ EchoOnConnection(ws)

EchoMessage ==
    \E ws \in Conns, message \in EchoTexts :
        /\ eState[ws] = "OPEN"
        /\ EchoStep(Event("message", ws, message))
        /\ EchoOnMessage(ws, message)

\* The closing handshake of a connection starts (the client sends a close
\* frame): the library sets readyState to CLOSING; the close event comes
\* later, and handlers of other connections run in between.
EchoBeginClose ==
    \E ws \in Conns :
        /\ eState[ws] = "OPEN"
        /\ EchoStep(Event("closing", ws, NoText))
        /\ eState' = [eState EXCEPT ![ws] = "CLOSING"]
        /\ UNCHANGED <<variant, eSent, eLog, eRunning>>

\* The library emits the close event of a connection.
EchoClose ==
    \E ws \in Conns :
        /\ eState[ws] \in {"OPEN", "CLOSING"}
        /\ EchoStep(Event("close", ws, NoText))
        /\ EchoOnClose(ws)

\* A client sends a frame the library rejects: the connection is set to
\* CLOSING and 'error' is emitted on it; neither file registers an 'error'
\* listener, so the exception ends the process.
EchoFrameError ==
    \E ws \in Conns :
        /\ eState[ws] = "OPEN"
        /\ EchoStep(Event("error", ws, NoText))
        /\ eState' = [eState EXCEPT ![ws] = "CLOSING"]
        /\ eRunning' = FALSE
        /\ UNCHANGED <<variant, eSent, eLog>>

InitEchoIdle ==
    /\ variant = "none"
    /\ eState = [c \in Conns |-> "CONNECTING"]
    /\ eSent = [c \in Conns |-> <<>>]
    /\ eLog = {}
    /\ eRunning = TRUE

Init ==
    /\ InitMetrics
    /\ InitEchoIdle
    /\ InitClientIdle
    /\ clock = 0
    /\ lastEvent = Event("start", 0, NoText)

Next == Connect \/ Message \/ BeginClose \/ FrameError \/ Close \/ GetMetrics

\* The metrics server.
Spec == Init /\ [][Next]_vars

InitEcho ==
    /\ InitMetrics
    /\ InitClientIdle
    /\ variant \in {"part_000", "part_001"}
    /\ eState = [c \in Conns |-> "CONNECTING"]
    /\ eSent = [c \in Conns |-> <<>>]
    /\ eLog = {}
    /\ eRunning = TRUE
    /\ clock = 0
    /\ lastEvent = Event("start", 0, NoText)

NextEcho == EchoConnect \/ EchoMessage \/ EchoBeginClose \/ EchoClose \/ EchoFrameError

\* One of the two echo servers.
SpecEcho == InitEcho /\ [][NextEcho]_vars

InitClient ==
    /\ InitMetrics
    /\ InitEchoIdle
    /\ clock = 0
    /\ lastEvent = Event("start", 0, NoText)
    /\ sketch \in {"remote_connection_internet", "ws_connection_client"}
    /\ pc = "setup_wifi"
    /\ wifi = "down"
    /\ ap \in {"on", "off"}
    /\ trying = TRUE
    /\ autoRe \in BOOLEAN
    /\ sock = "disconnected"
    /\ attempt = FALSE
    /\ sinceLast = 0
    /\ tx = <<"none", FALSE>>

serverVars == <<metricsVars, echoVars, clock, lastEvent>>

ClientStep == DeviceStep /\ UNCHANGED serverVars
ClientTick == Tick /\ UNCHANGED serverVars
ClientJoin == Join /\ UNCHANGED serverVars
ClientWifiLost == WifiLost /\ UNCHANGED serverVars
ClientApChange == ApChange /\ UNCHANGED serverVars
ClientSocketDrop == SocketDrop /\ UNCHANGED serverVars

NextClient ==
    \/ ClientStep \/ ClientTick \/ ClientJoin
    \/ ClientWifiLost \/ ClientApChange \/ ClientSocketDrop

\* One client sketch.  The device keeps executing: a wait loop that finds the
\* link up at its polls is left, while a link that is up only between polls
\* is never seen.  Time keeps passing, and a station that is trying joins an
\* access point that stays available.
SpecClient ==
    /\ InitClient
    /\ [][NextClient]_vars
    /\ WF_vars(ClientStep)
    /\ WF_vars(ClientTick)
    /\ WF_vars(ClientJoin)

(***************************************************************************)
(* Vocabulary of the properties.                                           *)
(***************************************************************************)
\* The entries of a send history that were sent by step `at`.
SentAt(hist, at) == SelectSeq(hist, LAMBDA e : e.at = at)

\* The text JSON.stringify makes of a value it serialises.
TextOf(v) == JSONstringify(v, NestingServed).text

\* The compact re-serialisation of a text that parses.
Reserialized(text) == TextOf(JSONparse(text).v)

Members == Range(clients)
Accepted == {c \in Conns : readyState[c] # "CONNECTING"}
ClosedConns == {c \in Conns : readyState[c] = "CLOSED"}
OpenMembers == {c \in Members : readyState[c] = "OPEN"}

\* The last step handled a payload that parsed / that did not parse.
ValidMessageHandled == lastEvent.type = "message" /\ JSONparse(lastEvent.text).ok
BadMessageHandled == lastEvent.type = "message" /\ ~JSONparse(lastEvent.text).ok

(***************************************************************************)
(* C1.  Broadcast of a valid payload.                                      *)
(***************************************************************************)
\* C1: when a payload M that parses has been handled, every other connection
\* that is in the active set and open was sent exactly one text by that step,
\* and that text is M as it was received.
C1_BroadcastVerbatim ==
    ValidMessageHandled =>
        \A c \in OpenMembers \ {lastEvent.conn} :
            SentAt(sent[c], clock) = <<Stamped(clock, lastEvent.text)>>

(***************************************************************************)
(* C2.  Membership after a disconnect.                                     *)
(***************************************************************************)
C2_SetSize ==
    /\ Cardinality(Members) = Cardinality(Accepted) - Cardinality(ClosedConns)
    /\ Len(clients) = Cardinality(Members)
    /\ Members \cap ClosedConns = {}

C2_NoSendAfterClose ==
    [][\A k \in Conns : readyState[k] = "CLOSED" => sent'[k] = sent[k]]_vars

\* C2: with N connections accepted and the close events of some of them
\* handled, the active set holds exactly the N minus closed others, no closed
\* connection is a member, and nothing is ever sent to a closed connection.
C2_Membership == []C2_SetSize /\ C2_NoSendAfterClose

\* Three connections were accepted, one was closed, and a later payload was
\* broadcast to the two that remain.
C2_Witness ==
    /\ Cardinality(Accepted) = 3
    /\ Cardinality(ClosedConns) = 1
    /\ ValidMessageHandled
    /\ \A c \in Members : SentAt(sent[c], clock) # <<>>
    /\ \A k \in ClosedConns : SentAt(sent[k], clock) = <<>>

(***************************************************************************)
(* C3.  A malformed payload.                                               *)
(***************************************************************************)
\* C3: a step that handles a payload that does not parse leaves the snapshot
\* as it was, sends nothing to any connection, and the server keeps running.
C3_MalformedDiscarded ==
    [][(lastEvent'.type = "message" /\ ~JSONparse(lastEvent'.text).ok
            /\ clock' = clock + 1)
        => (latestMetrics' = latestMetrics /\ sent' = sent /\ running')]_vars

\* A malformed payload was handled while a snapshot was stored and another
\* member was open; the server runs.
C3_Witness ==
    /\ BadMessageHandled
    /\ latestMetrics # EmptyObject
    /\ OpenMembers \ {lastEvent.conn} # {}
    /\ running

(***************************************************************************)
(* C4.  The greeting.                                                      *)
(***************************************************************************)
\* The text of the snapshot that was current when c was accepted.
SnapshotTextAtAccept(c) == TextOf(greetedAfter[c])

\* C4: the first text sent on every accepted connection is the snapshot that
\* was current when it was accepted (the empty object if no valid payload had
\* been received), and every other text sent on it was sent by a later step.
C4_GreetingFirst ==
    \A c \in Accepted :
        /\ Len(sent[c]) >= 1
        /\ sent[c][1].text = SnapshotTextAtAccept(c)
        /\ \A i \in 2..Len(sent[c]) : sent[c][i].at > sent[c][1].at

(***************************************************************************)
(* C5.  The value of the snapshot.                                         *)
(***************************************************************************)
\* The value of the last received payload that parsed (the empty object if
\* there was none).
LastValidValue == lastValid

\* C5: the snapshot is the value of the most recently received payload that
\* parsed (the empty object if there was none), and the body of a response of
\* the metrics endpoint is the JSON text of that value.
C5_SnapshotIsLastValid ==
    /\ latestMetrics = LastValidValue
    /\ lastEvent.type = "http" =>
          /\ httpBody = TextOf(LastValidValue)
          /\ JSONparse(httpBody).ok
          /\ JSONparse(httpBody).v = LastValidValue

(***************************************************************************)
(* C6.  The active set and readyState.                                     *)
(***************************************************************************)
\* C6 as stated: every member of the active set is OPEN.
C6_AllMembersOpen == \A c \in Members : readyState[c] = "OPEN"

\* C6 amended: the members of the active set are exactly the accepted
\* connections whose close event has not been handled: they are OPEN or
\* CLOSING; a CLOSED connection is never a member.
C6_MembersNotClosed ==
    \A c \in Conns : c \in Members <=> readyState[c] \in {"OPEN", "CLOSING"}

\* A member of the set is CLOSING: its close event has not been handled yet.
C6_Witness == \E c \in Members : readyState[c] = "CLOSING"

(***************************************************************************)
(* C7.  The reply of the echo servers.                                     *)
(***************************************************************************)
\* C7: a handled message got exactly one reply, sent to its sender; equal
\* messages always got equal replies, and different messages different
\* replies (the reply is made from the message).
C7_EchoReplyFromMessage ==
    /\ lastEvent.type = "message" =>
          Len(SentAt(eSent[lastEvent.conn], clock)) = 1
    /\ \A p \in eLog, q \in eLog : (p[1] = q[1]) <=> (p[2] = q[2])

(***************************************************************************)
(* C8.  A send that fails during a broadcast.                              *)
(***************************************************************************)
\* A member whose transport has failed: it is still in the active set and its
\* readyState is no longer OPEN, so the broadcast loop cannot send to it.
FailedMembers == Members \ OpenMembers

\* C8: when a payload that parses has been handled while a member of the
\* active set could not be sent to, only that member was skipped: every open
\* member, wherever it stands in the set, was sent the payload once in that
\* same step and the snapshot holds the payload.
C8_SendFailureIsolation ==
    (ValidMessageHandled /\ FailedMembers # {}) =>
        /\ latestMetrics = JSONparse(lastEvent.text).v
        /\ \A c \in FailedMembers : SentAt(sent[c], clock) = <<>>
        /\ \A c \in OpenMembers :
              SentAt(sent[c], clock) = <<Stamped(clock, Reserialized(lastEvent.text))>>

(***************************************************************************)
(* C9.  The connection that sent a malformed payload.                      *)
(***************************************************************************)
\* C9: a connection that has sent a payload that does not parse is sent every
\* later payload that parses while it is an open member, and a later valid
\* payload of its own becomes the snapshot and is broadcast.
C9_SurvivesMalformed ==
    ValidMessageHandled =>
        /\ \A c \in sentBad \cap OpenMembers :
              SentAt(sent[c], clock) = <<Stamped(clock, Reserialized(lastEvent.text))>>
        /\ lastEvent.conn \in sentBad =>
              latestMetrics = JSONparse(lastEvent.text).v

(***************************************************************************)
(* C10.  Members that are not open are skipped, nothing is queued.         *)
(***************************************************************************)
C10_Skipped ==
    ValidMessageHandled =>
        /\ latestMetrics = JSONparse(lastEvent.text).v
        /\ \A c \in Members \ OpenMembers : SentAt(sent[c], clock) = <<>>

\* Whatever a step sends to a connection is the text of the event that step
\* handles: no text of an earlier event is sent later.
C10_NothingLater ==
    [][\A c \in Conns :
          \/ sent'[c] = sent[c]
          \/ /\ Len(sent'[c]) = Len(sent[c]) + 1
             /\ SubSeq(sent'[c], 1, Len(sent[c])) = sent[c]
             /\ sent'[c][Len(sent'[c])].at = clock'
             /\ \/ /\ lastEvent'.type = "message"
                   /\ JSONparse(lastEvent'.text).ok
                   /\ sent'[c][Len(sent'[c])].text = Reserialized(lastEvent'.text)
                \/ /\ lastEvent' = Event("connection", c, NoText)
                   /\ Len(sent[c]) = 0]_vars

\* C10: when a payload that parses has been handled, the snapshot holds it, a
\* member of the active set that is not open was sent nothing, and no later
\* step sends that payload to it.
C10_SkipNeverBuffer == []C10_Skipped /\ C10_NothingLater

\* A broadcast skipped a member that was CLOSING and reached an open one.
C10_Witness ==
    /\ ValidMessageHandled
    /\ latestMetrics = JSONparse(lastEvent.text).v
    /\ \E c \in Members : readyState[c] = "CLOSING" /\ SentAt(sent[c], clock) = <<>>
    /\ \E c \in OpenMembers : SentAt(sent[c], clock) # <<>>

(***************************************************************************)
(* C11.  The order of the broadcasts.                                      *)
(***************************************************************************)
\* C11: what was sent to a connection after its greeting are payloads that the
\* server received, re-serialised, in the order in which it received them;
\* hence two connections that were both sent two payloads were sent them in
\* the same order.
C11_BroadcastOrder ==
    /\ LET broadcasts == {Stamped(received[k].at, TextOf(received[k].v)) :
                              k \in 1..Len(received)}
       IN  \A c \in Conns :
              /\ \A i \in 1..Len(sent[c]), j \in 1..Len(sent[c]) :
                    i < j => sent[c][i].at < sent[c][j].at
              /\ \A i \in 2..Len(sent[c]) : sent[c][i] \in broadcasts
    /\ \A k \in 1..Len(received), l \in 1..Len(received) :
          k < l => received[k].at < received[l].at
    /\ \A c \in Conns, d \in Conns :
          \A i \in 1..Len(sent[c]), k \in 1..Len(sent[d]) :
             sent[c][i].at = sent[d][k].at =>
                \A j \in (i + 1)..Len(sent[c]), l \in 1..Len(sent[d]) :
                   sent[c][j].at = sent[d][l].at => k < l

\* Two connections were each sent the same two different payloads.
C11_Witness ==
    \E c \in Conns, d \in Conns :
        /\ c # d
        /\ Len(sent[c]) >= 3
        /\ Len(sent[d]) >= 3
        /\ sent[c][2].text # sent[c][3].text
        /\ sent[c][2].at = sent[d][2].at
        /\ sent[c][3].at = sent[d][3].at

(***************************************************************************)
(* C12.  What the close handler changes.                                   *)
(***************************************************************************)
\* C12: a step that handles the close of connection k removes k from the
\* active set and nothing else: the other members stay, in their order, the
\* snapshot is unchanged and nothing is sent to any connection.
C12_CloseFrame ==
    [][(lastEvent'.type = "close" /\ clock' = clock + 1)
        => /\ Range(clients') = Range(clients) \ {lastEvent'.conn}
           /\ clients' = SelectSeq(clients, LAMBDA y : y # lastEvent'.conn)
           /\ latestMetrics' = latestMetrics
           /\ sent' = sent
           /\ httpBody' = httpBody]_vars

\* A close was handled while a snapshot was stored and two others were members.
C12_Witness ==
    /\ lastEvent.type = "close"
    /\ readyState[lastEvent.conn] = "CLOSED"
    /\ lastEvent.conn \notin Members
    /\ Cardinality(Members) = 2
    /\ latestMetrics # EmptyObject

(***************************************************************************)
(* C13.  The metrics endpoint only reads.                                  *)
(***************************************************************************)
\* C13: a step that handles a read of the metrics endpoint leaves the
\* snapshot, the active set and the state of every connection unchanged and
\* sends nothing to any connection.
C13_HttpReadOnly ==
    [][(lastEvent'.type = "http" /\ clock' = clock + 1)
        => /\ latestMetrics' = latestMetrics
           /\ clients' = clients
           /\ readyState' = readyState
           /\ sent' = sent]_vars

\* The endpoint was read between other events: a snapshot is stored, there are
\* members, and the body is the text of the snapshot.
C13_Witness ==
    /\ lastEvent.type = "http"
    /\ latestMetrics # EmptyObject
    /\ OpenMembers # {}
    /\ Members \ OpenMembers # {}
    /\ JSONstringify(latestMetrics, NestingServed).ok
    /\ httpBody = TextOf(latestMetrics)

(***************************************************************************)
(* C14.  The shape of the snapshot.                                        *)
(***************************************************************************)
\* C14: the stored snapshot is a JSON object, and every text sent to a
\* connection is the text of a JSON object: a payload that is a JSON string,
\* number, array or null is neither stored nor broadcast.
C14_SnapshotIsObject ==
    /\ latestMetrics.t = "object"
    /\ \A c \in Conns : \A i \in 1..Len(sent[c]) :
          JSONparse(sent[c][i].text).v.t = "object"

(***************************************************************************)
(* C15.  Admission and greeting of the echo servers.                       *)
(***************************************************************************)
\* C15: while the server process runs, a waiting connection request can
\* always be accepted; the first text sent on every accepted connection is
\* the fixed welcome text, it is sent once, and every reply on that
\* connection is sent by a later step.
C15_EchoGreeting ==
    /\ (eRunning /\ clock < MaxSteps /\ \E c \in Conns : eState[c] = "CONNECTING")
          => ENABLED EchoConnect
    /\ \A c \in Conns :
          IF eState[c] = "CONNECTING"
          THEN eSent[c] = <<>>
          ELSE /\ Len(eSent[c]) >= 1
               /\ eSent[c][1].text = Welcome
               /\ \A i \in 2..Len(eSent[c]) :
                     /\ eSent[c][i].text # Welcome
                     /\ eSent[c][i].at > eSent[c][1].at

\* A connection was welcomed and then got a reply, and a second connection
\* was accepted after that reply.
C15_Witness ==
    \E c \in Conns, d \in Conns :
        /\ c # d
        /\ Len(eSent[c]) >= 2
        /\ Len(eSent[d]) >= 1
        /\ eSent[d][1].at > eSent[c][2].at

(***************************************************************************)
(* C19.  The connections of an echo server do not affect one another.      *)
(***************************************************************************)
\* C19: a step that handles a message of connection c sends one text, to c,
\* which depends on that message alone, and sends nothing to and changes
\* nothing of any other connection; a step that handles the start or the end
\* of the close of c sends nothing and changes no other connection.
C19_EchoIsolation ==
    [][/\ (lastEvent'.type = "message" /\ clock' = clock + 1)
          => /\ \A d \in Conns \ {lastEvent'.conn} : eSent'[d] = eSent[d]
             /\ eSent'[lastEvent'.conn] =
                   Append(eSent[lastEvent'.conn],
                          Stamped(clock',
                                  IF variant = "part_000"
                                  THEN <<"Server received: ">> \o lastEvent'.text
                                  ELSE <<"Server recieved: ", "${message}">>))
             /\ eState' = eState
       /\ (lastEvent'.type \in {"closing", "close"} /\ clock' = clock + 1)
          => /\ eSent' = eSent
             /\ \A d \in Conns \ {lastEvent'.conn} : eState'[d] = eState[d]]_vars

\* A message of one connection was answered while another connection was
\* open; the other one was sent nothing by that step.
C19_Witness ==
    /\ lastEvent.type = "message"
    /\ SentAt(eSent[lastEvent.conn], clock) # <<>>
    /\ \E d \in Conns \ {lastEvent.conn} :
          /\ eState[d] = "OPEN"
          /\ SentAt(eSent[d], clock) = <<>>
    /\ \E d \in Conns : eState[d] = "CLOSED"

(***************************************************************************)
(* C17.  The snapshot and what the members were sent.                      *)
(***************************************************************************)
\* C17: in every state between two events, the last text sent to every open
\* member of the active set is the text of the current snapshot, and every
\* payload received after its greeting was sent to it.
C17_DeliveryConsistent ==
    \A c \in OpenMembers :
        /\ Len(sent[c]) >= 1
        /\ sent[c][Len(sent[c])].text = TextOf(latestMetrics)
        /\ \A k \in 1..Len(received) :
              received[k].at > sent[c][1].at
                  => \E i \in 2..Len(sent[c]) : sent[c][i].at = received[k].at

(***************************************************************************)
(* C18.  The sender is a member like the others.                           *)
(***************************************************************************)
\* C18: when a payload that parses has been handled and its sender is an open
\* member of the active set, the sender too was sent that payload, once, by
\* the same step that sent it to the other members.
C18_SenderIncluded ==
    (ValidMessageHandled /\ lastEvent.conn \in OpenMembers) =>
        SentAt(sent[lastEvent.conn], clock)
            = <<Stamped(clock, Reserialized(lastEvent.text))>>

(***************************************************************************)
(* C16.  Recovery of the client sketches.                                  *)
(***************************************************************************)
\* A sketch that finds the WiFi link lost at the start of loop() goes into
\* the wait loop that rejoins it.
C16_ReentersWaitLoop ==
    [][(pc = "loop_top" /\ wifi = "down" /\ pc' # pc) => pc' = "ensure_wait"]_vars

\* If the access point stays available from some time on, a lost link comes back.
C16_WifiReturns ==
    (<>[](ap = "on")) => ((wifi = "down") ~> (wifi = "up"))

\* If the access point stays available from some time on, a dropped socket is
\* followed by an attempt to connect to the server again, and a reconnected
\* sketch sends its heartbeat again.
C16_SocketRetried ==
    (<>[](ap = "on")) =>
        /\ (sock = "disconnected" /\ pc # "setup_wifi") ~> attempt
        /\ (tx[1] = "Hello from ESP32!") ~> (tx[1] = "Ping from ESP32")

\* C16: in each sketch a lost WiFi link sends the device into its reconnect
\* wait loop and, if the access point becomes available, the link comes back;
\* a dropped server socket is eventually retried and heartbeats resume.
C16_ClientRecovery == C16_ReentersWaitLoop /\ C16_WifiReturns /\ C16_SocketRetried

====
